---- MODULE Spec2Model ----
(***************************************************************************)
(* Persistence of house items and house metadata (IOMapSerialize) and the  *)
(* decay scheduler (Decay) of the canary server, as a state machine.       *)
(*                                                                         *)
(* The binary property stream is modelled at byte level: a stream is a     *)
(* sequence of bytes (0..255); a reader consumes a prefix and fails soft   *)
(* when fewer bytes remain than the field is wide.                         *)
(***************************************************************************)
EXTENDS Integers, Sequences, FiniteSets, TLC

(***************************************************************************)
(* Item type registry (Item::items), consumed read-only.  The ids are the  *)
(* fixture the model runs on: a movable sack holding movable items, a      *)
(* door pair, a stationary container, a carpet, a legacy and a new bed.    *)
(***************************************************************************)
SACK == 100
COIN == 200
GEM == 201
WALL == 103
DOOR_CLOSED == 1210
DOOR_OPEN == 1211
BOOKCASE == 1718
CARPET == 25393
BED_OLD == 1754
BED_NEW == 31000

NEW_BEDS_START_ID == 30000

DefaultType ==
  [moveable |-> FALSE, container |-> FALSE, door |-> FALSE, bed |-> FALSE,
   carpet |-> FALSE, transformOnUse |-> 0, saved |-> FALSE]

KnownIds ==
  {SACK, COIN, GEM, WALL, DOOR_CLOSED, DOOR_OPEN, BOOKCASE, CARPET, BED_OLD, BED_NEW}

\* Item::items[id]: the registry entry of a type id; an id the registry does
\* not know resolves to the default entry.
ItemType(id) ==
  CASE id = SACK -> [DefaultType EXCEPT !.moveable = TRUE, !.container = TRUE, !.saved = TRUE]
    [] id = COIN -> [DefaultType EXCEPT !.moveable = TRUE, !.saved = TRUE]
    [] id = GEM -> [DefaultType EXCEPT !.moveable = TRUE, !.saved = TRUE]
    [] id = WALL -> DefaultType
    [] id = DOOR_CLOSED -> [DefaultType EXCEPT !.door = TRUE, !.transformOnUse = DOOR_OPEN, !.saved = TRUE]
    [] id = DOOR_OPEN -> [DefaultType EXCEPT !.door = TRUE, !.transformOnUse = DOOR_CLOSED, !.saved = TRUE]
    [] id = BOOKCASE -> [DefaultType EXCEPT !.container = TRUE, !.saved = TRUE]
    [] id = CARPET -> [DefaultType EXCEPT !.carpet = TRUE, !.saved = TRUE]
    [] id = BED_OLD -> [DefaultType EXCEPT !.bed = TRUE, !.saved = TRUE]
    [] id = BED_NEW -> [DefaultType EXCEPT !.bed = TRUE, !.saved = TRUE]
    [] OTHER -> DefaultType

(***************************************************************************)
(* Items.  An item is a record: its type id, its attribute set (an action  *)
(* id and, for beds, a sleeper guid; 0 = attribute absent), the children   *)
(* of its container capability in live iteration order, and the            *)
(* container's serializationCount.                                         *)
(***************************************************************************)
\* Item::CreateItem(id): a fresh item of the type, no attributes, no children.
\* An id the registry does not know gives an item of the default type.
CreateItem(id) == [id |-> id, aid |-> 0, sleeper |-> 0, kids |-> <<>>, scount |-> 0]

getContainer(item) == ItemType(item.id).container
getDoor(item) == ItemType(item.id).door
getBed(item) == ItemType(item.id).bed
isSavedToHouses(item) == ItemType(item.id).saved

(***************************************************************************)
(* Binary property stream: fixed-width little-endian scalars.              *)
(***************************************************************************)
W8(v) == <<v % 256>>
W16(v) == <<v % 256, (v \div 256) % 256>>
W32(v) == <<v % 256, (v \div 256) % 256, (v \div 65536) % 256, (v \div 16777216) % 256>>

\* PropStream::read<T>: fails, consuming nothing, when fewer than sizeof(T)
\* bytes remain.
CanRead(s, n) == Len(s) >= n
Skip(s, n) == SubSeq(s, n + 1, Len(s))
R8(s) == s[1]
R16(s) == s[1] + 256 * s[2]
R32(s) == s[1] + 256 * s[2] + 65536 * s[3] + 16777216 * s[4]

ATTR_END == 0
ATTR_ACTION_ID == 4
ATTR_SLEEPERGUID == 20
ATTR_CONTAINER_ITEMS == 23

Reverse(q) == [i \in 1..Len(q) |-> q[Len(q) + 1 - i]]

\* Item::serializeAttr: the attribute blob of an item, without terminator.
serializeAttr(item) ==
  (IF item.aid # 0 THEN <<ATTR_ACTION_ID>> \o W16(item.aid) ELSE <<>>)
  \o (IF getBed(item) /\ item.sleeper # 0
      THEN <<ATTR_SLEEPERGUID>> \o W32(item.sleeper) ELSE <<>>)

RECURSIVE saveItem(_)
RECURSIVE saveItems(_)

\* The items of a list encoded one after the other, in list order.
saveItems(q) == IF q = <<>> THEN <<>> ELSE saveItem(Head(q)) \o saveItems(Tail(q))

\* saveItem writing the children of a container in live order.
saveItemForward(item) ==
  W16(item.id) \o serializeAttr(item)
  \o (IF getContainer(item)
      THEN <<ATTR_CONTAINER_ITEMS>> \o W32(Len(item.kids)) \o saveItems(item.kids)
      ELSE <<>>)
  \o <<ATTR_END>>

\* IOMapSerialize::saveItem: id, attributes, for a container the marker, the
\* child count and the children in reverse of live order, then the terminator.
saveItem(item) ==
  W16(item.id) \o serializeAttr(item)
  \o (IF getContainer(item)
      THEN <<ATTR_CONTAINER_ITEMS>> \o W32(Len(item.kids)) \o saveItems(Reverse(item.kids))
      ELSE <<>>)
  \o <<ATTR_END>>

RECURSIVE unserializeAttr(_, _)

\* Item::unserializeAttr (with Container::readAttr and BedItem::readAttr):
\* reads attributes until the terminator or the end of the stream.  The
\* container marker reads the child count into serializationCount and ends
\* the attribute section without consuming a terminator.
unserializeAttr(item, s) ==
  IF ~CanRead(s, 1) THEN [ok |-> TRUE, item |-> item, s |-> s]
  ELSE
    LET a == R8(s)
        r == Skip(s, 1)
    IN CASE a = ATTR_END -> [ok |-> TRUE, item |-> item, s |-> r]
         [] a = ATTR_ACTION_ID ->
              IF CanRead(r, 2)
              THEN unserializeAttr([item EXCEPT !.aid = R16(r)], Skip(r, 2))
              ELSE [ok |-> FALSE, item |-> item, s |-> r]
         [] a = ATTR_SLEEPERGUID /\ getBed(item) ->
              IF CanRead(r, 4)
              THEN unserializeAttr([item EXCEPT !.sleeper = R32(r)], Skip(r, 4))
              ELSE [ok |-> FALSE, item |-> item, s |-> r]
         [] a = ATTR_CONTAINER_ITEMS /\ getContainer(item) ->
              IF CanRead(r, 4)
              THEN [ok |-> TRUE, item |-> [item EXCEPT !.scount = R32(r)], s |-> Skip(r, 4)]
              ELSE [ok |-> FALSE, item |-> item, s |-> r]
         [] OTHER -> [ok |-> FALSE, item |-> item, s |-> r]

\* Cylinder::internalAddThing (Tile and Container): the thing goes to the
\* front of the cylinder's item list.
internalAddThing(parent, item) == <<item>> \o parent

\* Game::transformItem(item, id): the item takes the new type id in place.
transformItem(item, id) == [item EXCEPT !.id = id]

\* The match conditions of the stationary scan for one existing item.
Matches(findItem, id) ==
  LET iType == ItemType(id)
  IN \/ findItem.id = id
     \/ iType.transformOnUse # 0 /\ findItem.id = iType.transformOnUse
     \/ iType.door /\ getDoor(findItem)
     \/ iType.bed /\ getBed(findItem)

\* The scan preferring an item of the decoded id over an earlier item that
\* matches by another condition.
FindItemExact(items, id) ==
  LET hits == {i \in 1..Len(items) : Matches(items[i], id)}
      exact == {i \in 1..Len(items) : items[i].id = id}
  IN IF exact # {} THEN CHOOSE i \in exact : \A j \in exact : i <= j
     ELSE IF hits = {} THEN 0 ELSE CHOOSE i \in hits : \A j \in hits : i <= j

\* The scan of the tile's item list: the index of the first match, 0 if none.
FindItem(items, id) ==
  LET hits == {i \in 1..Len(items) : Matches(items[i], id)}
  IN IF hits = {} THEN 0 ELSE CHOOSE i \in hits : \A j \in hits : i <= j

\* The record of one loadItem call: what it read, the branch it took, what it
\* returned, and the parent's item list on entry and on exit.
Call(id, top, house, branch, ok, pre, post, sIn, sOut, idx, released, decay) ==
  [id |-> id, top |-> top, house |-> house, branch |-> branch, ok |-> ok,
   pre |-> pre, post |-> post, inLen |-> Len(sIn), outLen |-> Len(sOut),
   idx |-> idx, released |-> released, decay |-> decay, depth |-> 0]

\* The records of the calls made for the children of a container, one level
\* further down.
Nested(calls) == [i \in 1..Len(calls) |-> [calls[i] EXCEPT !.depth = @ + 1]]

\* What a loadItem call hands back: its result, the stream where it stopped,
\* the parent's item list, and its record followed by those of the calls it
\* made for the children.
Ret(ok, branch, id, tile, house, pre, post, sIn, sOut, idx, released, decay, nested) ==
  [ok |-> ok, s |-> sOut, parent |-> post,
   calls |-> <<Call(id, tile, house, branch, ok, pre, post, sIn, sOut, idx, released, decay)>>
             \o nested]

RECURSIVE loadItem(_, _, _, _)
RECURSIVE loadContainer(_, _)

\* loadContainer after the loadItem call for one child returned r: a failed
\* child ends the container, otherwise the remaining children follow.
loadContainerChild(r, container) ==
  IF ~r.ok
  THEN [ok |-> FALSE, s |-> r.s,
        container |-> [container EXCEPT !.kids = r.parent], calls |-> Nested(r.calls)]
  ELSE [loadContainer(r.s, [container EXCEPT !.kids = r.parent, !.scount = @ - 1])
          EXCEPT !.calls = Nested(r.calls) \o @]

\* loadContainer taking any byte for the terminator.
loadContainerLax(s, container) ==
  IF container.scount > 0
  THEN loadContainerChild(loadItem(s, container.kids, FALSE, FALSE), container)
  ELSE IF ~CanRead(s, 1)
       THEN [ok |-> FALSE, s |-> s, container |-> container, calls |-> <<>>]
       ELSE [ok |-> TRUE, s |-> Skip(s, 1), container |-> container, calls |-> <<>>]

\* IOMapSerialize::loadContainer: serializationCount children, then the
\* terminator byte.
loadContainer(s, container) ==
  IF container.scount > 0
  THEN loadContainerChild(loadItem(s, container.kids, FALSE, FALSE), container)
  ELSE IF ~CanRead(s, 1)
       THEN [ok |-> FALSE, s |-> s, container |-> container, calls |-> <<>>]
       ELSE [ok |-> R8(s) = 0, s |-> Skip(s, 1), container |-> container, calls |-> <<>>]

\* The legacy guard of loadItem: a bed below the threshold in a house-item
\* call.
LegacyGuard(isHouseItem, id) ==
  isHouseItem /\ ItemType(id).bed /\ id < NEW_BEDS_START_ID

\* The branch condition of loadItem: the record makes a new item.
CreatesNew(id, tile) ==
  LET iType == ItemType(id)
  IN iType.moveable \/ ~tile \/ iType.carpet \/ iType.bed

\* The create-new branch after loadContainer returned c for the new
\* container: the container goes to the parent and starts to decay.
loadNewKids(c, s, id, parent, tile, isHouseItem) ==
  IF ~c.ok
  THEN Ret(FALSE, "fresh", id, tile, isHouseItem, parent, parent, s, c.s, 0, <<>>, FALSE, c.calls)
  ELSE Ret(TRUE, "fresh", id, tile, isHouseItem, parent, internalAddThing(parent, c.container),
           s, c.s, 0, <<>>, TRUE, c.calls)

\* The create-new branch after unserializeAttr returned u for the new item.
loadNewAttrs(u, s, id, parent, tile, isHouseItem) ==
  IF ~u.ok
  THEN Ret(FALSE, "fresh", id, tile, isHouseItem, parent, parent, s, u.s, 0, <<>>, FALSE, <<>>)
  ELSE IF getContainer(u.item)
  THEN loadNewKids(loadContainer(u.s, u.item), s, id, parent, tile, isHouseItem)
  ELSE Ret(TRUE, "fresh", id, tile, isHouseItem, parent, internalAddThing(parent, u.item),
           s, u.s, 0, <<>>, TRUE, <<>>)

\* loadItem, the branch that creates a new item: attributes, then for a
\* container its children, then the item goes to the parent and starts to
\* decay.  s is the stream on entry, s1 the stream after the id.
loadNew(s, s1, id, parent, tile, isHouseItem) ==
  loadNewAttrs(unserializeAttr(CreateItem(id), s1), s, id, parent, tile, isHouseItem)

\* The matched branch making a new item instead of using the one found.
loadMatchedAppend(s, s1, id, idx, parent, tile, isHouseItem) ==
  loadNew(s, s1, id, parent, tile, isHouseItem)

\* The matched branch after loadContainer returned c for the item found: a
\* failed child fails the call, otherwise the item is transformed to the
\* decoded id.
loadMatchedKids(c, s, id, idx, parent, tile, isHouseItem) ==
  IF ~c.ok
  THEN Ret(FALSE, "matched", id, tile, isHouseItem, parent,
           [parent EXCEPT ![idx] = c.container], s, c.s, idx, <<>>, FALSE, c.calls)
  ELSE Ret(TRUE, "matched", id, tile, isHouseItem, parent,
           [parent EXCEPT ![idx] = transformItem(c.container, id)], s, c.s, idx, <<>>, FALSE, c.calls)

\* The matched branch after unserializeAttr returned u for the item found.  A
\* failed attribute decode is logged and the call still returns true.
loadMatchedAttrs(u, s, id, idx, parent, tile, isHouseItem) ==
  IF ~u.ok
  THEN Ret(TRUE, "matched", id, tile, isHouseItem, parent,
           [parent EXCEPT ![idx] = u.item], s, u.s, idx, <<>>, FALSE, <<>>)
  ELSE IF getContainer(u.item)
  THEN loadMatchedKids(loadContainer(u.s, u.item), s, id, idx, parent, tile, isHouseItem)
  ELSE Ret(TRUE, "matched", id, tile, isHouseItem, parent,
           [parent EXCEPT ![idx] = transformItem(u.item, id)], s, u.s, idx, <<>>, FALSE, <<>>)

\* loadItem, the branch that found the stationary item at index idx of the
\* tile: attributes onto it, for a container its children into it, then the
\* transformation to the decoded id.
loadMatched(s, s1, id, idx, parent, tile, isHouseItem) ==
  loadMatchedAttrs(unserializeAttr(parent[idx], s1), s, id, idx, parent, tile, isHouseItem)

\* The dummy branch reading the attributes and leaving the children of a
\* container in the stream.
loadDummyShallow(s, s1, id, parent, tile, isHouseItem) ==
  Ret(TRUE, "dummy", id, tile, isHouseItem, parent, parent, s,
      unserializeAttr(CreateItem(id), s1).s, 0, <<>>, FALSE, <<>>)

\* The dummy branch after loadContainer returned c for the dummy container:
\* the children were read into the dummy, which is dropped.
loadDummyKids(c, s, id, parent, tile, isHouseItem) ==
  Ret(c.ok, "dummy", id, tile, isHouseItem, parent, parent, s, c.s, 0, <<>>, FALSE, c.calls)

\* The dummy branch after unserializeAttr returned u for the dummy (the
\* result of the read is not looked at); a dummy bed with a sleeper has the
\* sleeper released.
loadDummyAttrs(u, s, id, parent, tile, isHouseItem) ==
  IF getContainer(u.item)
  THEN loadDummyKids(loadContainer(u.s, u.item), s, id, parent, tile, isHouseItem)
  ELSE Ret(TRUE, "dummy", id, tile, isHouseItem, parent, parent, s, u.s, 0,
           IF getBed(u.item) /\ u.item.sleeper # 0 THEN <<u.item.sleeper>> ELSE <<>>,
           FALSE, <<>>)

\* loadItem, the branch for a stationary record with no match on the tile:
\* the map changed since the last save, the attributes are read into a dummy.
loadDummy(s, s1, id, parent, tile, isHouseItem) ==
  loadDummyAttrs(unserializeAttr(CreateItem(id), s1), s, id, parent, tile, isHouseItem)

\* IOMapSerialize::loadItem.  parent is the item list of the parent cylinder,
\* tile says whether that cylinder is a tile (parent->getParent() == nullptr).
loadItem(s, parent, tile, isHouseItem) ==
  IF ~CanRead(s, 2)
  THEN Ret(FALSE, "underrun", 0, tile, isHouseItem, parent, parent, s, s, 0, <<>>, FALSE, <<>>)
  ELSE IF LegacyGuard(isHouseItem, R16(s))
  THEN Ret(FALSE, "legacy", R16(s), tile, isHouseItem, parent, parent, s, Skip(s, 2), 0,
           <<>>, FALSE, <<>>)
  ELSE IF CreatesNew(R16(s), tile)
  THEN loadNew(s, Skip(s, 2), R16(s), parent, tile, isHouseItem)
  ELSE IF FindItem(parent, R16(s)) # 0
  THEN loadMatched(s, Skip(s, 2), R16(s), FindItem(parent, R16(s)), parent, tile, isHouseItem)
  ELSE loadDummy(s, Skip(s, 2), R16(s), parent, tile, isHouseItem)

(***************************************************************************)
(* The world: two houses, one tile each.  The static map (the geometry the *)
(* map file places) comes in variants, so that a restart can find a map    *)
(* that diverged from the saved records.                                   *)
(***************************************************************************)
TileIds == {1, 2}
HouseIds == {1, 2}

\* Tile::getPosition: the position (x, y, z) of a tile.
PosOf(t) == <<1000 + t, 1000, 7>>

\* House::getTiles: the tiles a house owns, in order.
HouseTiles(h) == <<h>>

\* The static maps: 1 is the furnished map, 2 a map with both tiles emptied,
\* 3 a map that lost the bookcase and the second tile and has the door open
\* behind a wall, 4 the furnished map with a second, open door put before
\* the closed one, 5 a map with nothing but a wall on the first tile.
StaticMap(v) ==
  CASE v = 1 -> (1 :> <<CreateItem(DOOR_CLOSED), CreateItem(BOOKCASE), CreateItem(WALL)>>
                 @@ 2 :> <<CreateItem(BED_NEW)>>)
    [] v = 2 -> (1 :> <<>> @@ 2 :> <<>>)
    [] v = 3 -> (1 :> <<CreateItem(WALL), CreateItem(DOOR_OPEN)>>)
    [] v = 4 -> (1 :> <<CreateItem(DOOR_OPEN), CreateItem(DOOR_CLOSED), CreateItem(BOOKCASE)>>
                 @@ 2 :> <<CreateItem(BED_NEW)>>)
    [] v = 5 -> (1 :> <<CreateItem(WALL)>> @@ 2 :> <<>>)

MapVariants == {1, 2, 3}

\* The variants with map 4 added: a tile with two doors, the open one first.
LoadVariants == MapVariants \cup {4}

\* What players drop: a gem carrying an action id, an empty sack, a carpet,
\* and a sack holding a coin and a gem.
Droppable ==
  {[CreateItem(GEM) EXCEPT !.aid = 7], CreateItem(SACK), CreateItem(CARPET),
   [CreateItem(SACK) EXCEPT !.kids = <<CreateItem(COIN), [CreateItem(GEM) EXCEPT !.aid = 7]>>]}

MaxMoves == 2

\* The index of the first container of a list, 0 if it holds none.
FirstContainer(q) ==
  LET cs == {i \in 1..Len(q) : getContainer(q[i])}
  IN IF cs = {} THEN 0 ELSE CHOOSE i \in cs : \A j \in cs : i <= j

RECURSIVE AddDeep(_, _, _)
\* The list with the item put into its first container, d levels down; the
\* list itself when no container is there.
AddDeep(q, d, item) ==
  LET i == FirstContainer(q)
  IN IF i = 0 THEN q
     ELSE IF d = 1 THEN [q EXCEPT ![i].kids = internalAddThing(@, item)]
     ELSE [q EXCEPT ![i].kids = AddDeep(@, d - 1, item)]

\* The count of saveTile is a uint16_t: it holds values below 2^16.
Wrap == 65536

\* The value of the count after n increments, as written to the count field.
CountField(n) == n % Wrap

(***************************************************************************)
(* Save side.                                                              *)
(***************************************************************************)
\* IOMapSerialize::saveTile: position, 32-bit count field written from the
\* 16-bit counter, then the qualifying items, last of the tile's list first.
saveTile(t, tileItems) ==
  LET items == Reverse(SelectSeq(tileItems, isSavedToHouses))
      count == CountField(Len(items))
  IN IF items = <<>> THEN <<>>
     ELSE W16(PosOf(t)[1]) \o W16(PosOf(t)[2]) \o W8(PosOf(t)[3])
          \o W32(count) \o saveItems(items)

\* The save loop adding a row for every tile of the house, empty blobs
\* included.
RowsOfHouseAll(h, ts) ==
  LET ht == SelectSeq(HouseTiles(h), LAMBDA t : t \in DOMAIN ts)
  IN [i \in 1..Len(ht) |-> [house_id |-> h, data |-> saveTile(ht[i], ts[ht[i]])]]

\* The rows the save loop builds: per house, per tile of the house, the
\* tile's blob when it is not empty.
RowsOfHouse(h, ts) ==
  LET ht == SelectSeq(HouseTiles(h), LAMBDA t : t \in DOMAIN ts /\ saveTile(t, ts[t]) # <<>>)
  IN [i \in 1..Len(ht) |-> [house_id |-> h, data |-> saveTile(ht[i], ts[ht[i]])]]

BuildRows(ts) == RowsOfHouse(1, ts) \o RowsOfHouse(2, ts)

\* One store operation as issued: its name and whether the store accepted it.
Op(name, k, failAt) == [op |-> name, ok |-> k # failAt]

\* SaveHouseItemsGuard not looking at the result of the batch execute.
SaveHouseItemsGuardNoCheck(store, ts, failAt) ==
  LET rows == BuildRows(ts)
      n == Len(rows)
      del == Op("DELETE tile_store", 1, failAt)
      adds == [k \in 1..n |-> Op("addRow", k + 1, failAt)]
      exe == Op("execute", n + 2, failAt)
  IN IF failAt = 1
     THEN [ok |-> FALSE, store |-> store, ops |-> <<del>>]
     ELSE IF failAt \in 2..(n + 1)
     THEN [ok |-> FALSE, store |-> <<>>, ops |-> <<del>> \o SubSeq(adds, 1, failAt - 1)]
     ELSE [ok |-> TRUE, store |-> IF failAt = n + 2 THEN <<>> ELSE rows,
           ops |-> <<del>> \o adds \o <<exe>>]

\* SaveHouseItemsGuard adding its rows to the rows the store holds, without
\* the DELETE clearing them.
SaveHouseItemsGuardAppend(store, ts, failAt) ==
  LET rows == BuildRows(ts)
      n == Len(rows)
      del == Op("DELETE tile_store", 1, failAt)
      adds == [k \in 1..n |-> Op("addRow", k + 1, failAt)]
      exe == Op("execute", n + 2, failAt)
  IN IF failAt = 1
     THEN [ok |-> FALSE, store |-> store, ops |-> <<del>>]
     ELSE IF failAt \in 2..(n + 1)
     THEN [ok |-> FALSE, store |-> store, ops |-> <<del>> \o SubSeq(adds, 1, failAt - 1)]
     ELSE IF failAt = n + 2
     THEN [ok |-> FALSE, store |-> store, ops |-> <<del>> \o adds \o <<exe>>]
     ELSE [ok |-> TRUE, store |-> store \o rows, ops |-> <<del>> \o adds \o <<exe>>]

\* IOMapSerialize::SaveHouseItemsGuard.  store is tile_store as the
\* transaction sees it; failAt is the number of the store operation the
\* store rejects (0: none).  Yields the result, the store and the operations
\* issued.
SaveHouseItemsGuard(store, ts, failAt) ==
  LET rows == BuildRows(ts)
      n == Len(rows)
      del == Op("DELETE tile_store", 1, failAt)
      adds == [k \in 1..n |-> Op("addRow", k + 1, failAt)]
      exe == Op("execute", n + 2, failAt)
  IN IF failAt = 1
     THEN [ok |-> FALSE, store |-> store, ops |-> <<del>>]
     ELSE IF failAt \in 2..(n + 1)
     THEN [ok |-> FALSE, store |-> <<>>, ops |-> <<del>> \o SubSeq(adds, 1, failAt - 1)]
     ELSE IF failAt = n + 2
     THEN [ok |-> FALSE, store |-> <<>>, ops |-> <<del>> \o adds \o <<exe>>]
     ELSE [ok |-> TRUE, store |-> rows, ops |-> <<del>> \o adds \o <<exe>>]

\* DBTransaction::executeWithinTransaction: the guard's writes persist when it
\* reports success and are rolled back when it reports failure.
executeWithinTransaction(before, r) == IF r.ok THEN r.store ELSE before

(***************************************************************************)
(* Load side.                                                              *)
(***************************************************************************)
\* Map::getTile(x, y, z): the tile at a position, 0 when the map has none.
getTile(ts, x, y, z) ==
  LET hit == {t \in DOMAIN ts : PosOf(t) = <<x, y, z>>}
  IN IF hit = {} THEN 0 ELSE CHOOSE t \in hit : TRUE

RECURSIVE loadItems(_, _, _)

\* The item loop after one loadItem call returned r (its result is not
\* looked at).  Once the stream holds no further id, every remaining call
\* fails the same way and changes nothing; one of them is recorded.
loadItemsNext(r, n, s) ==
  IF ~CanRead(s, 2) THEN [s |-> r.s, parent |-> r.parent, calls |-> r.calls]
  ELSE [loadItems(n - 1, r.s, r.parent) EXCEPT !.calls = r.calls \o @]

\* The loop `while (item_count--) loadItem(propStream, tile, true)`.
loadItems(n, s, list) ==
  IF n = 0 THEN [s |-> s, parent |-> list, calls |-> <<>>]
  ELSE loadItemsNext(loadItem(s, list, TRUE, TRUE), n, s)

\* The row body once the tile t of the blob is found: the count, then the
\* item loop onto the tile's list.
LoadRowOnTile(r, t, count, ts) ==
  [tiles |-> [ts EXCEPT ![t] = r.parent], tile |-> t, count |-> count, calls |-> r.calls]

\* The row body after the position is read: no tile there, or no count in
\* the blob, and the row is skipped.
LoadRowAt(t, s, ts) ==
  IF t = 0 \/ ~CanRead(s, 4) THEN [tiles |-> ts, tile |-> t, count |-> 0, calls |-> <<>>]
  ELSE LoadRowOnTile(loadItems(R32(s), Skip(s, 4), ts[t]), t, R32(s), ts)

\* The body of the row loop of loadHouseItems for one stored blob.
LoadRow(data, ts) ==
  IF ~CanRead(data, 5) THEN [tiles |-> ts, tile |-> 0, count |-> 0, calls |-> <<>>]
  ELSE LoadRowAt(getTile(ts, R16(data), R16(Skip(data, 2)), R8(Skip(data, 4))),
                 Skip(data, 5), ts)

RECURSIVE LoadRows(_, _)

\* The record of one row: its tile, its count, the loadItem calls made for
\* it, and the map before and after, followed by the records of the rows
\* after it.
RowDone(r, rest, ts) ==
  [tiles |-> rest.tiles,
   rows |-> <<[tile |-> r.tile, count |-> r.count, calls |-> r.calls,
               pre |-> ts, post |-> r.tiles]>> \o rest.rows]

\* The row loop after the body returned r for the first row: the remaining
\* rows go onto the map as r left it.
LoadRowsNext(r, rows, ts) == RowDone(r, LoadRows(Tail(rows), r.tiles), ts)

\* The row loop: the rows in stored order, each onto the map as the rows
\* before it left it.
LoadRows(rows, ts) ==
  IF rows = <<>> THEN [tiles |-> ts, rows |-> <<>>]
  ELSE LoadRowsNext(LoadRow(Head(rows).data, ts), rows, ts)

(***************************************************************************)
(* State.                                                                  *)
(***************************************************************************)
VARIABLES
  tiles,       \* the live map: tile -> item list (Tile::getItemList)
  tile_store,  \* the persisted table tile_store: rows (house_id, data)
  phase,       \* "running", "saved", "booting" (map loaded, house items not
               \* yet), "loaded"
  moves,       \* player actions so far
  savedTiles,  \* history: the live map the rows of tile_store were built from
  last,        \* history: the record of the latest operation
  decayMap,    \* Decay::decayMap: expiry tick -> items due then, in insertion order
  now,         \* the clock (OTSYS_TIME)
  stage,       \* per decaying item: the stage of its type chain it is at
  alive,       \* per decaying item: whether it is still in the world
  dlast,       \* history: the record of the latest Decay operation
  houses,      \* the live house registry: house id -> owner, rent state, access lists
  houses_tbl,  \* the persisted table houses: rows (id, owner, new_owner, paid, warnings)
  house_lists, \* the persisted table house_lists: rows (house_id, listid, list)
  transferOnRestart, \* configuration: TOGGLE_HOUSE_TRANSFER_ON_SERVER_RESTART
  edits,       \* changes made to houses and their stored rows so far
  hlast,       \* history: the record of the latest house-info operation
  damaged,     \* whether a stored row of tile_store was damaged outside the server
  bulk,        \* the number of qualifying items on the bulk tile
  bulkBlob     \* the blob saveTile last wrote for the bulk tile: count field, items

itemVars == <<tiles, tile_store, phase, moves, savedTiles, last>>
decayVars == <<decayMap, now, stage, alive, dlast>>
infoVars == <<houses, houses_tbl, house_lists, transferOnRestart, edits, hlast>>
extVars == <<damaged, bulk, bulkBlob>>
vars == <<itemVars, decayVars, infoVars, extVars>>

(***************************************************************************)
(* The decay scheduler (class Decay).                                      *)
(***************************************************************************)
\* The items under decay, the length of the clock and the last stage of an
\* item's type chain.
DecayItems == {1, 2, 3}
MaxTime == 3
LastStage == 1

\* The decay duration configured for an item's type.
Duration(item) == IF item = 3 THEN 2 ELSE 1

\* The buckets an item is in.
Buckets(m, item) == {t \in DOMAIN m : \E k \in 1..Len(m[t]) : m[t][k] = item}

\* A bucket without an item.
Without(q, item) == SelectSeq(q, LAMBDA x : x # item)

\* Unscheduling that drops the bucket the item is in.
UnscheduleBucket(m, item) ==
  [t \in DOMAIN m \ Buckets(m, item) |-> m[t]]

\* The item taken out of its bucket; a bucket it drains is deleted.
Unschedule(m, item) ==
  [t \in {k \in DOMAIN m : Without(m[k], item) # <<>>} |-> Without(m[t], item)]

\* The item put at the end of the bucket of tick t, created if absent.
Schedule(m, t, item) ==
  [k \in DOMAIN m \cup {t} |->
     IF k = t THEN (IF t \in DOMAIN m THEN m[t] ELSE <<>>) \o <<item>> ELSE m[k]]

\* Scheduling that leaves the item in its old bucket.
RescheduleKeep(m, t, item) == Schedule(m, t, item)

\* Decay::startDecay on the bucket map: an item already scheduled is first
\* removed from its old bucket.
Reschedule(m, t, item) == Schedule(Unschedule(m, item), t, item)

\* The ticks of a set in ascending order.
RECURSIVE Ascending(_)
Ascending(ts) ==
  IF ts = {} THEN <<>>
  ELSE <<CHOOSE t \in ts : \A u \in ts : t <= u>>
       \o Ascending(ts \ {CHOOSE t \in ts : \A u \in ts : t <= u})

\* The items of the buckets of the given ticks, bucket after bucket.
RECURSIVE Flatten(_, _)
Flatten(m, ticks) ==
  IF ticks = <<>> THEN <<>> ELSE m[Head(ticks)] \o Flatten(m, Tail(ticks))

\* A sweep taking the items of every bucket, due or not.
DueItemsAll(m, clock) == Flatten(m, Ascending(DOMAIN m))

\* The items a sweep at the given clock finds due: the buckets with tick <=
\* clock in ascending tick order, each in insertion order.
DueItems(m, clock) == Flatten(m, Ascending({t \in DOMAIN m : t <= clock}))

\* Decay::internalDecayItem on the state d = [m, stage, alive] at the given
\* clock: an item that left the world is skipped, an item whose type chain
\* continues goes to its next stage and is rescheduled, an item at its last
\* stage leaves the world.
internalDecayItem(d, item, clock) ==
  IF ~d.alive[item] THEN d
  ELSE IF d.stage[item] < LastStage
  THEN [d EXCEPT !.stage[item] = @ + 1,
                 !.m = Reschedule(@, clock + Duration(item), item)]
  ELSE [d EXCEPT !.alive[item] = FALSE, !.m = Unschedule(@, item)]

\* The sweep over the due items in order.
RECURSIVE SweepItems(_, _, _)
SweepItems(d, due, clock) ==
  IF due = <<>> THEN d
  ELSE SweepItems(internalDecayItem(d, Head(due), clock), Tail(due), clock)

\* The bucket map with the due buckets deleted.
Drained(m, clock) == [t \in {k \in DOMAIN m : k > clock} |-> m[t]]

NoDecayOp == [op |-> "none", item |-> 0, at |-> 0, pre |-> <<>>, before |-> "none",
              beforeItem |-> 0, due |-> <<>>]

DecayInit ==
  /\ decayMap = [t \in {} |-> <<>>]
  /\ now = 0
  /\ stage = [i \in DecayItems |-> 0]
  /\ alive = [i \in DecayItems |-> TRUE]
  /\ dlast = NoDecayOp

(***************************************************************************)
(* House metadata: the houses and house_lists tables.                      *)
(***************************************************************************)
\* The list ids of the guest list and of the subowner list; any other list
\* id is the id of a door.
GUEST_LIST == 256
SUBOWNER_LIST == 257

\* Houses::getHouses: the houses in iteration order.
HouseOrder == <<1, 2>>

\* A house as the map file makes it: no owner, nothing paid, empty lists;
\* house 1 has one door.
NewHouse(h) ==
  [owner |-> 0, paid |-> 0, warnings |-> 0, guest |-> "", subowner |-> "",
   doors |-> IF h = 1 THEN <<[id |-> 1, list |-> ""]>> ELSE <<>>]

\* House::setOwner: the house takes the owner.
setOwner(house, guid) == [house EXCEPT !.owner = guid]

\* House::setAccessList(listid, text): the guest list, the subowner list or
\* the list of the door with that id, if the house has it.
setAccessList(house, listid, text) ==
  IF listid = GUEST_LIST THEN [house EXCEPT !.guest = text]
  ELSE IF listid = SUBOWNER_LIST THEN [house EXCEPT !.subowner = text]
  ELSE [house EXCEPT !.doors =
          [i \in 1..Len(@) |-> IF @[i].id = listid THEN [@[i] EXCEPT !.list = text] ELSE @[i]]]

\* Whether the houses table holds a row for a house id.
HasRow(tbl, h) == \E i \in 1..Len(tbl) : tbl[i].id = h

\* The UPDATE of a house's row: owner, paid, warnings (new_owner is not
\* written).
UpdateRow(tbl, h, house) ==
  [i \in 1..Len(tbl) |->
     IF tbl[i].id = h
     THEN [tbl[i] EXCEPT !.owner = house.owner, !.paid = house.paid,
                         !.warnings = house.warnings]
     ELSE tbl[i]]

\* The INSERT of a house's row; new_owner takes the column default.
InsertRow(tbl, h, house) ==
  Append(tbl, [id |-> h, owner |-> house.owner, new_owner |-> -1,
               paid |-> house.paid, warnings |-> house.warnings])

\* The body of the house loop of SaveHouseInfoGuard for one house, as store
\* operations k and k + 1: the existence check (no result, also when the
\* query fails, means absent), then the UPDATE or the INSERT, whose result
\* is not looked at; an INSERT for an id the table holds is rejected.
SaveHouseRow(tbl, h, house, k, failAt) ==
  IF k # failAt /\ HasRow(tbl, h)
  THEN [tbl |-> IF k + 1 # failAt THEN UpdateRow(tbl, h, house) ELSE tbl,
        ops |-> <<Op("SELECT houses", k, failAt), Op("UPDATE houses", k + 1, failAt)>>]
  ELSE [tbl |-> IF k + 1 # failAt /\ ~HasRow(tbl, h) THEN InsertRow(tbl, h, house) ELSE tbl,
        ops |-> <<Op("SELECT houses", k, failAt),
                  [op |-> "INSERT houses", ok |-> k + 1 # failAt /\ ~HasRow(tbl, h)]>>]

RECURSIVE SaveHouseRows(_, _, _, _, _)

\* The house loop after the body returned r for the first house.
SaveHouseRowsNext(r, hseq, hs, k, failAt) ==
  [SaveHouseRows(Tail(hseq), hs, r.tbl, k + 2, failAt) EXCEPT !.ops = r.ops \o @]

\* The house loop of SaveHouseInfoGuard, from store operation k on.
SaveHouseRows(hseq, hs, tbl, k, failAt) ==
  IF hseq = <<>> THEN [tbl |-> tbl, ops |-> <<>>]
  ELSE SaveHouseRowsNext(SaveHouseRow(tbl, Head(hseq), hs[Head(hseq)], k, failAt),
                         hseq, hs, k, failAt)

\* The rows of a house's door lists that are not empty.
DoorRows(h, doors) ==
  [i \in 1..Len(SelectSeq(doors, LAMBDA d : d.list # "")) |->
     [house_id |-> h, listid |-> SelectSeq(doors, LAMBDA d : d.list # "")[i].id,
      list |-> SelectSeq(doors, LAMBDA d : d.list # "")[i].list]]

\* The access-list rows of a house: guest list, subowner list, door lists,
\* each when not empty.
ListRowsOf(h, house) ==
  (IF house.guest # "" THEN <<[house_id |-> h, listid |-> GUEST_LIST, list |-> house.guest]>>
   ELSE <<>>)
  \o (IF house.subowner # ""
      THEN <<[house_id |-> h, listid |-> SUBOWNER_LIST, list |-> house.subowner]>>
      ELSE <<>>)
  \o DoorRows(h, house.doors)

ListRows(hs) == ListRowsOf(1, hs[1]) \o ListRowsOf(2, hs[2])

\* The number of the first addRow among the store operations.
FirstAdd == 2 + 2 * Len(HouseOrder)

\* SaveHouseInfoGuard after the house loop returned u: one addRow per list
\* row, then the batch execute.
SaveHouseLists(u, rows, failAt) ==
  IF failAt \in FirstAdd..(FirstAdd + Len(rows) - 1)
  THEN [ok |-> FALSE, store |-> [tbl |-> u.tbl, lists |-> <<>>],
        ops |-> <<Op("DELETE house_lists", 1, failAt)>> \o u.ops
                \o [i \in 1..(failAt - FirstAdd + 1) |-> Op("addRow", FirstAdd + i - 1, failAt)]]
  ELSE [ok |-> failAt # FirstAdd + Len(rows),
        store |-> [tbl |-> u.tbl,
                   lists |-> IF failAt # FirstAdd + Len(rows) THEN rows ELSE <<>>],
        ops |-> <<Op("DELETE house_lists", 1, failAt)>> \o u.ops
                \o [i \in 1..Len(rows) |-> Op("addRow", FirstAdd + i - 1, failAt)]
                \o <<Op("execute", FirstAdd + Len(rows), failAt)>>]

\* IOMapSerialize::SaveHouseInfoGuard.  store holds the two tables as the
\* transaction sees them; failAt is the number of the store operation the
\* store rejects (0: none).
SaveHouseInfoGuard(store, hs, failAt) ==
  IF failAt = 1
  THEN [ok |-> FALSE, store |-> store, ops |-> <<Op("DELETE house_lists", 1, failAt)>>]
  ELSE SaveHouseLists(SaveHouseRows(HouseOrder, hs, store.tbl, 2, failAt), ListRows(hs), failAt)

\* An effect of loadHouseInfo on a house: the item transfer, or setOwner.
Ev(name, h, guid) == [ev |-> name, house |-> h, guid |-> guid]

\* The owner decision always taking the stored owner.
OwnerDecisionDirect(flag, h, owner, newOwner) == <<Ev("setOwner", h, owner)>>

\* The owner decision of loadHouseInfo for one row of a house of the
\* registry, as the effects it has in order.
OwnerDecision(flag, h, owner, newOwner) ==
  IF flag /\ newOwner >= 0
  THEN <<Ev("setTransferPlayerHouseItems", h, owner)>>
       \o (IF newOwner = 0 THEN <<Ev("setOwner", h, 0)>> ELSE <<Ev("setOwner", h, newOwner)>>)
  ELSE <<Ev("setOwner", h, owner)>>

\* The house after the effects of a row: the owner of the last setOwner,
\* then paid and warnings from the row.
LoadHouseRow(house, row, evs) ==
  [setOwner(house, evs[Len(evs)].guid) EXCEPT !.paid = row.paid, !.warnings = row.warnings]

RECURSIVE LoadHouseRows(_, _, _)

\* The row loop after the effects evs of the first row are decided.
LoadHouseRowsNext(evs, rows, hs, flag) ==
  [LoadHouseRows(Tail(rows), [hs EXCEPT ![Head(rows).id] = LoadHouseRow(@, Head(rows), evs)], flag)
     EXCEPT !.events = evs \o @]

\* The row loop of loadHouseInfo over the rows of houses: a row of a house
\* the registry does not hold is skipped.
LoadHouseRows(rows, hs, flag) ==
  IF rows = <<>> THEN [hs |-> hs, events |-> <<>>]
  ELSE IF Head(rows).id \notin DOMAIN hs THEN LoadHouseRows(Tail(rows), hs, flag)
  ELSE LoadHouseRowsNext(OwnerDecision(flag, Head(rows).id, Head(rows).owner, Head(rows).new_owner),
                         rows, hs, flag)

RECURSIVE LoadHouseLists(_, _)

\* The row loop of loadHouseInfo over the rows of house_lists.
LoadHouseLists(rows, hs) ==
  IF rows = <<>> THEN hs
  ELSE IF Head(rows).house_id \notin DOMAIN hs THEN LoadHouseLists(Tail(rows), hs)
  ELSE LoadHouseLists(Tail(rows),
         [hs EXCEPT ![Head(rows).house_id] = setAccessList(@, Head(rows).listid, Head(rows).list)])

\* The budget of changes to houses and stored rows, and the most list rows
\* a save writes within it (the stored lists hold one more for a house of
\* the registry).
MaxEdits == 1
MaxLists == MaxEdits + 1

NoInfoOp == [op |-> "none", result |-> TRUE, ops |-> <<>>, events |-> <<>>,
             pre |-> <<>>, post |-> <<>>, tbl |-> <<>>, flag |-> FALSE]

\* The registry after the map file is loaded, and the tables an earlier run
\* left: a row for house 1, a row for a house the map no longer has, no row
\* for house 2.
InfoInit ==
  /\ houses = [h \in HouseIds |-> NewHouse(h)]
  /\ houses_tbl = <<[id |-> 1, owner |-> 11, new_owner |-> -1, paid |-> 5, warnings |-> 1],
                    [id |-> 3, owner |-> 13, new_owner |-> 0, paid |-> 0, warnings |-> 0]>>
  /\ house_lists = <<[house_id |-> 1, listid |-> GUEST_LIST, list |-> "bob"],
                     [house_id |-> 3, listid |-> GUEST_LIST, list |-> "eve"]>>
  /\ transferOnRestart = FALSE
  /\ edits = 0
  /\ hlast = NoInfoOp

\* returned is what the caller of the operation gets back: "true" or "false"
\* from a routine returning bool, "void" from one returning nothing.
NoOp ==
  [op |-> "none", result |-> TRUE, ops |-> <<>>, pre |-> <<>>, rows |-> <<>>,
   returned |-> "void"]

\* The world an older server version saved: a legacy bed inside a sack and a
\* legacy bed on the tile itself.
LegacyWorld ==
  (1 :> <<CreateItem(DOOR_CLOSED), CreateItem(BOOKCASE), CreateItem(WALL)>>
   @@ 2 :> <<[CreateItem(BED_OLD) EXCEPT !.aid = 5],
             [CreateItem(SACK) EXCEPT !.kids = <<CreateItem(BED_OLD), CreateItem(COIN)>>]>>)

NoWorld == (1 :> <<>> @@ 2 :> <<>>)

\* A world saved with a stocked bookcase, and with a legacy bed that is the
\* first record of its tile's row.
StockedWorld ==
  (1 :> <<CreateItem(DOOR_CLOSED),
          [CreateItem(BOOKCASE) EXCEPT !.kids = <<CreateItem(COIN), [CreateItem(GEM) EXCEPT !.aid = 7]>>],
          CreateItem(WALL)>>
   @@ 2 :> <<[CreateItem(SACK) EXCEPT !.kids = <<CreateItem(COIN)>>], CreateItem(BED_OLD)>>)

\* The state after construction, with the store holding the rows of one of
\* the given worlds and the map file being one of the given variants.
InitWith(worlds, variants) ==
  /\ tiles \in {StaticMap(v) : v \in variants}
  /\ savedTiles \in worlds
  /\ tile_store = BuildRows(savedTiles)
  /\ phase = "running"
  /\ moves = 0
  /\ last = NoOp
  /\ DecayInit
  /\ InfoInit
  /\ damaged = FALSE
  /\ bulk = 0
  /\ bulkBlob = [written |-> FALSE, count |-> 0, items |-> 0]

Init == InitWith({NoWorld, LegacyWorld}, {1})

Mutated == [NoOp EXCEPT !.op = "world"]

\* A player drops an item on a house tile.
AddItem(t, item) ==
  /\ phase = "running"
  /\ t \in DOMAIN tiles
  /\ tiles' = [tiles EXCEPT ![t] = internalAddThing(@, item)]
  /\ moves < MaxMoves
  /\ moves' = moves + 1
  /\ last' = Mutated
  /\ UNCHANGED <<tile_store, phase, savedTiles>>
  /\ UNCHANGED <<decayVars, infoVars, extVars>>

\* A player puts an item into the first container of a tile, d levels deep.
AddToContainer(t, d, item) ==
  /\ phase = "running"
  /\ t \in DOMAIN tiles
  /\ tiles' = [tiles EXCEPT ![t] = AddDeep(@, d, item)]
  /\ tiles' # tiles
  /\ moves < MaxMoves
  /\ moves' = moves + 1
  /\ last' = Mutated
  /\ UNCHANGED <<tile_store, phase, savedTiles>>
  /\ UNCHANGED <<decayVars, infoVars, extVars>>

\* A player opens or closes the door of a tile (the door's transformOnUse).
UseDoor(t) ==
  /\ phase = "running"
  /\ t \in DOMAIN tiles
  /\ \E i \in 1..Len(tiles[t]) :
       /\ getDoor(tiles[t][i])
       /\ tiles' = [tiles EXCEPT ![t][i] =
                      [transformItem(@, ItemType(@.id).transformOnUse) EXCEPT !.aid = 3]]
  /\ moves < MaxMoves
  /\ moves' = moves + 1
  /\ last' = Mutated
  /\ UNCHANGED <<tile_store, phase, savedTiles>>
  /\ UNCHANGED <<decayVars, infoVars, extVars>>

\* A player goes to sleep in a bed of a tile.
Sleep(t, guid) ==
  /\ phase = "running"
  /\ t \in DOMAIN tiles
  /\ \E i \in 1..Len(tiles[t]) :
       /\ getBed(tiles[t][i])
       /\ tiles[t][i].sleeper = 0
       /\ tiles' = [tiles EXCEPT ![t][i].sleeper = guid]
  /\ moves < MaxMoves
  /\ moves' = moves + 1
  /\ last' = Mutated
  /\ UNCHANGED <<tile_store, phase, savedTiles>>
  /\ UNCHANGED <<decayVars, infoVars, extVars>>

\* IOMapSerialize::saveHouseItems.
saveHouseItems(failAt) ==
  /\ phase \in {"running", "saved"}
  /\ LET r == SaveHouseItemsGuard(tile_store, tiles, failAt)
     IN /\ tile_store' = executeWithinTransaction(tile_store, r)
        /\ savedTiles' = IF r.ok THEN tiles ELSE savedTiles
        /\ last' = [NoOp EXCEPT !.op = "saveHouseItems", !.result = r.ok,
                                !.ops = r.ops, !.pre = tile_store,
                                !.returned = IF r.ok THEN "true" ELSE "false"]
  /\ phase' = "saved"
  /\ UNCHANGED <<tiles, moves>>
  /\ UNCHANGED <<decayVars, infoVars, extVars>>

\* The server restarts: the map file is loaded again, in one of its variants.
\* The model follows the server through one restart, up to the load that
\* follows it.
Restart(v) ==
  /\ phase \in {"running", "saved"}
  /\ tiles' = StaticMap(v)
  /\ phase' = "booting"
  /\ last' = Mutated
  /\ UNCHANGED <<tile_store, moves, savedTiles>>
  /\ UNCHANGED <<decayVars, infoVars, extVars>>

\* IOMapSerialize::loadHouseItems.  queryOk: whether the store answers the
\* SELECT; no result (a failed query, or no rows) makes it return at once.
\* The routine returns nothing.
loadHouseItems(queryOk) ==
  /\ phase = "booting"
  /\ LET r == IF queryOk THEN LoadRows(tile_store, tiles)
               ELSE [tiles |-> tiles, rows |-> <<>>]
     IN /\ tiles' = r.tiles
        /\ last' = [NoOp EXCEPT !.op = "loadHouseItems", !.result = queryOk,
                                !.ops = <<Op("SELECT tile_store", 1, IF queryOk THEN 0 ELSE 1)>>,
                                !.pre = tiles, !.rows = r.rows]
  /\ phase' = "loaded"
  /\ UNCHANGED <<tile_store, moves, savedTiles>>
  /\ UNCHANGED <<decayVars, infoVars, extVars>>

\* The byte values a damaged blob can hold in place of the written one: a
\* terminator, the action-id attribute, and a value that is no attribute.
DamageBytes == {ATTR_END, ATTR_ACTION_ID, 99}

\* The data column of a stored row comes back with one byte changed.
DamageRow(r, k, b) ==
  /\ phase = "running"
  /\ ~damaged
  /\ r \in 1..Len(tile_store)
  /\ k \in 1..Len(tile_store[r].data)
  /\ tile_store[r].data[k] # b
  /\ tile_store' = [tile_store EXCEPT ![r].data[k] = b]
  /\ damaged' = TRUE
  /\ UNCHANGED <<tiles, phase, moves, savedTiles, last>>
  /\ UNCHANGED <<decayVars, infoVars, bulk, bulkBlob>>

\* The data column of a stored row comes back cut to its first n bytes.
TruncateRow(r, n) ==
  /\ phase = "running"
  /\ ~damaged
  /\ r \in 1..Len(tile_store)
  /\ n < Len(tile_store[r].data)
  /\ tile_store' = [tile_store EXCEPT ![r].data = SubSeq(@, 1, n)]
  /\ damaged' = TRUE
  /\ UNCHANGED <<tiles, phase, moves, savedTiles, last>>
  /\ UNCHANGED <<decayVars, infoVars, bulk, bulkBlob>>

MaxDbOps == Cardinality(TileIds) + 2

Next ==
  \/ \E t \in TileIds, item \in Droppable : AddItem(t, item)
  \/ \E t \in TileIds, d \in 1..2, item \in Droppable : AddToContainer(t, d, item)
  \/ \E t \in TileIds : UseDoor(t)
  \/ \E t \in TileIds : Sleep(t, 9)
  \/ \E failAt \in 0..MaxDbOps : saveHouseItems(failAt)
  \/ \E v \in MapVariants : Restart(v)
  \/ \E queryOk \in BOOLEAN : loadHouseItems(queryOk)

Spec == Init /\ [][Next]_vars

\* The snapshot of a server started on the furnished map, on the empty map
\* or on the map with nothing but a wall.
InitSnap == InitWith({NoWorld}, {1, 2, 5})

SpecSnap == InitSnap /\ [][Next]_vars

\* How far around 0 and around 2^16 the item numbers of the bulk tile go.
BulkSpan == 12

\* The numbers of qualifying items the bulk tile is given.
BulkSizes == (0..BulkSpan) \cup ((Wrap - BulkSpan)..(Wrap + BulkSpan))

\* Items are put on or taken from the bulk tile, a house tile of which only
\* the number of qualifying items is kept.
FillTile(n) ==
  /\ n # bulk
  /\ bulk' = n
  /\ UNCHANGED <<damaged, bulkBlob>>
  /\ UNCHANGED <<itemVars, decayVars, infoVars>>

\* IOMapSerialize::saveTile on the bulk tile: nothing is written for a tile
\* with no qualifying item, otherwise the position, the count field and one
\* record per qualifying item.
saveBulkTile ==
  /\ bulkBlob' = IF bulk = 0 THEN [written |-> FALSE, count |-> 0, items |-> 0]
                 ELSE [written |-> TRUE, count |-> CountField(bulk), items |-> bulk]
  /\ UNCHANGED <<damaged, bulk>>
  /\ UNCHANGED <<itemVars, decayVars, infoVars>>

NextCount ==
  \/ \E n \in BulkSizes : FillTile(n)
  \/ saveBulkTile

SpecCount == Init /\ [][NextCount]_vars

(***************************************************************************)
(* The decay scheduler as a state machine: the game starts and stops the   *)
(* decay of items, the timer runs the sweep, the clock advances.           *)
(***************************************************************************)
\* The record of a Decay operation on the map as it was before it.
DecayOp(name, item, due) ==
  [op |-> name, item |-> item, at |-> now, pre |-> decayMap, before |-> dlast.op,
   beforeItem |-> dlast.item, due |-> due]

\* Decay::startDecay(item).
startDecay(item) ==
  /\ alive[item]
  /\ decayMap' = Reschedule(decayMap, now + Duration(item), item)
  /\ dlast' = DecayOp("startDecay", item, <<>>)
  /\ UNCHANGED <<now, stage, alive>>
  /\ UNCHANGED <<itemVars, infoVars, extVars>>

\* Decay::stopDecay(item).
stopDecay(item) ==
  /\ decayMap' = Unschedule(decayMap, item)
  /\ dlast' = DecayOp("stopDecay", item, <<>>)
  /\ UNCHANGED <<now, stage, alive>>
  /\ UNCHANGED <<itemVars, infoVars, extVars>>

\* Decay::checkDecay, the periodic sweep.
checkDecay ==
  /\ decayMap' = SweepItems([m |-> Drained(decayMap, now), stage |-> stage, alive |-> alive],
                            DueItems(decayMap, now), now).m
  /\ stage' = SweepItems([m |-> Drained(decayMap, now), stage |-> stage, alive |-> alive],
                         DueItems(decayMap, now), now).stage
  /\ alive' = SweepItems([m |-> Drained(decayMap, now), stage |-> stage, alive |-> alive],
                         DueItems(decayMap, now), now).alive
  /\ dlast' = DecayOp("checkDecay", 0, DueItems(decayMap, now))
  /\ UNCHANGED now
  /\ UNCHANGED <<itemVars, infoVars, extVars>>

\* Unrelated game logic destroys an item that may still be in a bucket.
DestroyItem(item) ==
  /\ alive[item]
  /\ alive' = [alive EXCEPT ![item] = FALSE]
  /\ UNCHANGED <<decayMap, now, stage, dlast>>
  /\ UNCHANGED <<itemVars, infoVars, extVars>>

\* The clock advances by one tick.
Tick ==
  /\ now < MaxTime
  /\ now' = now + 1
  /\ UNCHANGED <<decayMap, stage, alive, dlast>>
  /\ UNCHANGED <<itemVars, infoVars, extVars>>

NextDecay ==
  \/ \E item \in DecayItems : startDecay(item)
  \/ \E item \in DecayItems : stopDecay(item)
  \/ checkDecay
  \/ \E item \in DecayItems : DestroyItem(item)
  \/ Tick

SpecDecay == Init /\ [][NextDecay]_vars
(***************************************************************************)
(* House metadata as a state machine: the game and the market change       *)
(* houses and stored rows, the server saves and loads them.                *)
(***************************************************************************)
\* A player buys or leaves a house.
BuyHouse(h, guid) ==
  /\ edits < MaxEdits
  /\ houses[h].owner # guid
  /\ houses' = [houses EXCEPT ![h] = setOwner(@, guid)]
  /\ edits' = edits + 1
  /\ UNCHANGED <<houses_tbl, house_lists, transferOnRestart, hlast>>
  /\ UNCHANGED <<itemVars, decayVars, extVars>>

\* The owner edits an access list of the house.
EditList(h, listid, text) ==
  /\ edits < MaxEdits
  /\ houses' = [houses EXCEPT ![h] = setAccessList(@, listid, text)]
  /\ houses' # houses
  /\ edits' = edits + 1
  /\ UNCHANGED <<houses_tbl, house_lists, transferOnRestart, hlast>>
  /\ UNCHANGED <<itemVars, decayVars, extVars>>

\* The rent of a house is paid up to a time.
PayRent(h, until) ==
  /\ edits < MaxEdits
  /\ houses[h].paid # until
  /\ houses' = [houses EXCEPT ![h].paid = until]
  /\ edits' = edits + 1
  /\ UNCHANGED <<houses_tbl, house_lists, transferOnRestart, hlast>>
  /\ UNCHANGED <<itemVars, decayVars, extVars>>

\* A pending ownership change is recorded in the stored row of a house.
SetNewOwner(i, guid) ==
  /\ edits < MaxEdits
  /\ i \in 1..Len(houses_tbl)
  /\ houses_tbl[i].new_owner # guid
  /\ houses_tbl' = [houses_tbl EXCEPT ![i].new_owner = guid]
  /\ edits' = edits + 1
  /\ UNCHANGED <<houses, house_lists, transferOnRestart, hlast>>
  /\ UNCHANGED <<itemVars, decayVars, extVars>>

\* The configuration is changed.
SetTransferOnRestart(flag) ==
  /\ transferOnRestart # flag
  /\ transferOnRestart' = flag
  /\ UNCHANGED <<houses, houses_tbl, house_lists, edits, hlast>>
  /\ UNCHANGED <<itemVars, decayVars, extVars>>

\* IOMapSerialize::saveHouseInfo.
saveHouseInfo(failAt) ==
  /\ LET r == SaveHouseInfoGuard([tbl |-> houses_tbl, lists |-> house_lists], houses, failAt)
         store == executeWithinTransaction([tbl |-> houses_tbl, lists |-> house_lists], r)
     IN /\ houses_tbl' = store.tbl
        /\ house_lists' = store.lists
        /\ hlast' = [NoInfoOp EXCEPT !.op = "saveHouseInfo", !.result = r.ok, !.ops = r.ops,
                                     !.pre = houses, !.post = houses, !.tbl = houses_tbl]
  /\ UNCHANGED <<houses, transferOnRestart, edits>>
  /\ UNCHANGED <<itemVars, decayVars, extVars>>

\* IOMapSerialize::loadHouseInfo.  housesOk, listsOk: whether the store
\* answers the SELECT on houses and the one on house_lists; no result (a
\* failed query, or no rows) on the first makes it return false, on the
\* second makes it leave the lists alone.
loadHouseInfo(housesOk, listsOk) ==
  /\ IF housesOk /\ houses_tbl # <<>>
     THEN LET r == LoadHouseRows(houses_tbl, houses, transferOnRestart)
          IN /\ houses' = IF listsOk THEN LoadHouseLists(house_lists, r.hs) ELSE r.hs
             /\ hlast' = [NoInfoOp EXCEPT !.op = "loadHouseInfo", !.result = TRUE,
                                          !.ops = <<Op("SELECT houses", 1, 0),
                                                    Op("SELECT house_lists", 2,
                                                       IF listsOk THEN 0 ELSE 2)>>,
                                          !.events = r.events, !.pre = houses,
                                          !.post = houses',
                                          !.tbl = houses_tbl, !.flag = transferOnRestart]
     ELSE /\ houses' = houses
          /\ hlast' = [NoInfoOp EXCEPT !.op = "loadHouseInfo", !.result = FALSE,
                                       !.ops = <<Op("SELECT houses", 1,
                                                    IF housesOk THEN 0 ELSE 1)>>,
                                       !.pre = houses, !.post = houses, !.tbl = houses_tbl,
                                       !.flag = transferOnRestart]
  /\ UNCHANGED <<houses_tbl, house_lists, transferOnRestart, edits>>
  /\ UNCHANGED <<itemVars, decayVars, extVars>>

MaxInfoOps == 1 + FirstAdd + MaxLists

NextInfo ==
  \/ \E h \in HouseIds, guid \in {0, 11} : BuyHouse(h, guid)
  \/ \E h \in HouseIds, listid \in {GUEST_LIST, SUBOWNER_LIST, 1}, text \in {"", "ann"} :
       EditList(h, listid, text)
  \/ \E h \in HouseIds : PayRent(h, 9)
  \/ \E i \in 1..2, guid \in {-1, 0, 12} : SetNewOwner(i, guid)
  \/ \E flag \in BOOLEAN : SetTransferOnRestart(flag)
  \/ \E failAt \in 0..MaxInfoOps : saveHouseInfo(failAt)
  \/ \E housesOk \in BOOLEAN, listsOk \in BOOLEAN : loadHouseInfo(housesOk, listsOk)

SpecInfo == Init /\ [][NextInfo]_vars

\* The two save routines side by side, on the furnished map and on houses
\* whose access lists are edited.
NextSave ==
  \/ \E h \in HouseIds, listid \in {GUEST_LIST, SUBOWNER_LIST, 1}, text \in {"", "ann"} :
       EditList(h, listid, text)
  \/ \E failAt \in 0..MaxInfoOps : saveHouseInfo(failAt)
  \/ \E failAt \in 0..MaxDbOps : saveHouseItems(failAt)

SpecSave == Init /\ [][NextSave]_vars

\* The boot of a server whose store holds the rows of an earlier save, as
\* written or with one row damaged.
InitLoad == InitWith({LegacyWorld, StockedWorld}, {1})

NextLoad ==
  \/ \E r \in DOMAIN tile_store : \E k \in 1..Len(tile_store[r].data), b \in DamageBytes :
       DamageRow(r, k, b)
  \/ \E r \in DOMAIN tile_store : \E n \in 0..Len(tile_store[r].data) : TruncateRow(r, n)
  \/ \E v \in LoadVariants : Restart(v)
  \/ \E queryOk \in BOOLEAN : loadHouseItems(queryOk)
  \/ \E housesOk \in BOOLEAN, listsOk \in BOOLEAN : loadHouseInfo(housesOk, listsOk)

SpecLoad == InitLoad /\ [][NextLoad]_vars

(***************************************************************************)
(* Properties of saveHouseItems and loadHouseItems.                        *)
(***************************************************************************)
SomeFailed(ops) == \E i \in 1..Len(ops) : ~ops[i].ok

Range(q) == {q[i] : i \in 1..Len(q)}

\* The rows a snapshot of the live map must consist of: one per tile with a
\* qualifying item, tagged with the house of the tile.
ExpectedRows(ts) ==
  {[house_id |-> h, data |-> saveTile(HouseTiles(h)[i], ts[HouseTiles(h)[i]])] :
     <<h, i>> \in {hi \in HouseIds \X {1} :
                    /\ HouseTiles(hi[1])[hi[2]] \in DOMAIN ts
                    /\ \E j \in 1..Len(ts[HouseTiles(hi[1])[hi[2]]]) :
                         isSavedToHouses(ts[HouseTiles(hi[1])[hi[2]]][j])}}

\* C1: saveHouseItems is all-or-nothing: when a step fails it returns false
\* and tile_store is what it was before the call; when every step succeeds
\* it returns true and tile_store holds exactly the rows of the live state.
C1_AllOrNothing ==
  last.op = "saveHouseItems" =>
    /\ SomeFailed(last.ops) => (~last.result /\ tile_store = last.pre)
    /\ ~SomeFailed(last.ops) =>
         /\ last.result
         /\ Range(tile_store) = ExpectedRows(tiles)
         /\ Len(tile_store) = Cardinality(ExpectedRows(tiles))

\* A save that failed after the DELETE went through, over a store whose rows
\* differ from the rows of the live state.
C1_Witness ==
  /\ last.op = "saveHouseItems"
  /\ ~last.result
  /\ Len(last.ops) >= 2
  /\ last.pre # <<>>
  /\ Range(last.pre) # ExpectedRows(tiles)

Loaded == last.op = "loadHouseItems" /\ last.result

\* The tiles of the stored rows, in row order.
RowTiles(ts) ==
  SelectSeq(HouseTiles(1) \o HouseTiles(2),
            LAMBDA t : t \in DOMAIN ts /\ \E j \in 1..Len(ts[t]) : isSavedToHouses(ts[t][j]))

\* The items row r was built from, in the order they were written.
SavedItems(r) ==
  Reverse(SelectSeq(savedTiles[RowTiles(savedTiles)[r]], isSavedToHouses))

RECURSIVE EncodedLen(_)
EncodedLen(q) == IF q = <<>> THEN 0 ELSE Len(saveItem(Head(q))) + EncodedLen(Tail(q))

\* The offset in the blob of row r at which its k-th item record starts.
Off(r, k) == 9 + EncodedLen(SubSeq(SavedItems(r), 1, k - 1))

\* The calls of loadItem the row loop made itself for row r.
TopCalls(r) == SelectSeq(last.rows[r].calls, LAMBDA c : c.top)

\* The k-th call for row r started at the k-th record of the row.
Aligned(r, k) ==
  /\ k <= Len(SavedItems(r))
  /\ Len(tile_store[r].data) - TopCalls(r)[k].inLen = Off(r, k)

Stationary(id) ==
  ~ItemType(id).moveable /\ ~ItemType(id).carpet /\ ~ItemType(id).bed

RECURSIVE IdTrees(_)
\* The type ids of a list of items, in order, with those of their children.
IdTrees(q) == [i \in 1..Len(q) |-> [id |-> q[i].id, kids |-> IdTrees(q[i].kids)]]

RECURSIVE HasLegacyBed(_)
HasLegacyBed(q) ==
  \E i \in 1..Len(q) :
    \/ ItemType(q[i].id).bed /\ q[i].id < NEW_BEDS_START_ID
    \/ HasLegacyBed(q[i].kids)

RoundTripOn(r) ==
  LET t == RowTiles(savedTiles)[r]
  IN IdTrees(tiles[t]) = IdTrees(SelectSeq(savedTiles[t], isSavedToHouses))

EmptyBefore(r) ==
  LET t == RowTiles(savedTiles)[r]
  IN t \in DOMAIN last.pre /\ last.pre[t] = <<>>

C3_Reconcile ==
  Loaded =>
    \A r \in 1..Len(last.rows) : \A k \in 1..Len(TopCalls(r)) :
      LET c == TopCalls(r)[k]
          it == SavedItems(r)[k]
          i == FindItem(c.pre, it.id)
      IN (Aligned(r, k) /\ Stationary(it.id) /\ i # 0) =>
           /\ Len(c.post) = Len(c.pre)
           /\ \A j \in 1..Len(c.pre) : j # i => c.post[j] = c.pre[j]
           /\ c.post[i].id = it.id
           /\ c.post[i].aid = (IF it.aid # 0 THEN it.aid ELSE c.pre[i].aid)

\* A door saved open with an action id, loaded onto the tile whose door is
\* closed.
C3_Witness ==
  /\ Loaded
  /\ \E r \in 1..Len(last.rows) : \E k \in 1..Len(TopCalls(r)) :
       LET c == TopCalls(r)[k]
           it == SavedItems(r)[k]
           i == FindItem(c.pre, it.id)
       IN /\ Aligned(r, k) /\ Stationary(it.id) /\ i # 0
          /\ c.pre[i].id # it.id
          /\ it.aid # 0
          /\ Len(c.pre) >= 2

\* C4: a stationary record loaded onto a tile with no matching item is read
\* off the stream whole, nested container payload included, the tile's items
\* stay as they were, and the next record of the row starts where it ends.
C4_Divergent ==
  Loaded =>
    \A r \in 1..Len(last.rows) : \A k \in 1..Len(TopCalls(r)) :
      LET c == TopCalls(r)[k]
          it == SavedItems(r)[k]
      IN (Aligned(r, k) /\ Stationary(it.id) /\ FindItem(c.pre, it.id) = 0) =>
           /\ c.post = c.pre
           /\ c.inLen - c.outLen = Len(saveItem(it))
           /\ k < Len(TopCalls(r)) => Aligned(r, k + 1)

\* A stationary container with children, saved and loaded onto a tile that
\* holds other items but no match, with a further record behind it.
C4_Witness ==
  /\ Loaded
  /\ \E r \in 1..Len(last.rows) : \E k \in 1..Len(TopCalls(r)) :
       LET c == TopCalls(r)[k]
           it == SavedItems(r)[k]
       IN /\ Aligned(r, k) /\ Stationary(it.id) /\ FindItem(c.pre, it.id) = 0
          /\ it.kids # <<>>
          /\ c.pre # <<>>
          /\ k < Len(TopCalls(r))

\* C5: a bed record with a sleeper, loaded onto a tile with no matching
\* item, is discarded and the sleeper is released (removeBedSleeper).
C5_GhostGuard ==
  Loaded =>
    \A r \in 1..Len(last.rows) : \A k \in 1..Len(TopCalls(r)) :
      LET c == TopCalls(r)[k]
          it == SavedItems(r)[k]
      IN (/\ Aligned(r, k) /\ ItemType(it.id).bed /\ it.sleeper # 0
          /\ FindItem(c.pre, it.id) = 0) =>
           /\ c.post = c.pre
           /\ c.released = <<it.sleeper>>

\* C6: every bed record below the legacy threshold decoded while a house row
\* is loaded, on the tile or inside a container, is rejected: loadItem
\* returns false and creates nothing.
C6_LegacyGuard ==
  Loaded =>
    \A r \in 1..Len(last.rows) : \A n \in 1..Len(last.rows[r].calls) :
      LET c == last.rows[r].calls[n]
      IN (c.branch # "underrun" /\ ItemType(c.id).bed /\ c.id < NEW_BEDS_START_ID) =>
           ~c.ok /\ c.post = c.pre

(***************************************************************************)
(* Properties of the decay scheduler.                                      *)
(***************************************************************************)
\* How often an item occurs in the buckets of a map.
RECURSIVE CountIn(_, _)
CountIn(q, item) ==
  IF q = <<>> THEN 0 ELSE (IF Head(q) = item THEN 1 ELSE 0) + CountIn(Tail(q), item)

Occurrences(m, item) == CountIn(Flatten(m, Ascending(DOMAIN m)), item)

\* C7: in every state reachable by startDecay, stopDecay and the sweep, each
\* item is in at most one decay bucket and at most once in it; after
\* startDecay on an item, also when it follows a startDecay on the same item,
\* the item is in exactly one bucket, the one of the expiry tick computed
\* last (the clock of the call plus the item's duration).
C7_OneBucket ==
  /\ \A item \in DecayItems : Occurrences(decayMap, item) <= 1
  /\ dlast.op = "startDecay" =>
       /\ Buckets(decayMap, dlast.item) = {dlast.at + Duration(dlast.item)}
       /\ Occurrences(decayMap, dlast.item) = 1

\* startDecay was called twice in a row on one item, the second time at a
\* later tick, so that the item had to leave the bucket of the first call.
C7_Witness ==
  /\ dlast.op = "startDecay"
  /\ dlast.before = "startDecay"
  /\ dlast.beforeItem = dlast.item
  /\ Buckets(dlast.pre, dlast.item) # {}
  /\ Buckets(dlast.pre, dlast.item) # {dlast.at + Duration(dlast.item)}
  /\ Buckets(decayMap, dlast.item) = {dlast.at + Duration(dlast.item)}

\* C8: after stopDecay(item) the item is in no bucket; stopDecay on an item
\* that is in no bucket leaves the bucket map as it was; and every bucket
\* keeps its other items, in their order.
C8_StopDecay ==
  dlast.op = "stopDecay" =>
    /\ Buckets(decayMap, dlast.item) = {}
    /\ Buckets(dlast.pre, dlast.item) = {} => decayMap = dlast.pre
    /\ DOMAIN decayMap \subseteq DOMAIN dlast.pre
    /\ \A t \in DOMAIN dlast.pre :
         Without(dlast.pre[t], dlast.item)
           = (IF t \in DOMAIN decayMap THEN decayMap[t] ELSE <<>>)

\* stopDecay took an item out of a bucket it shared with another item, which
\* stayed.
C8_Witness ==
  /\ dlast.op = "stopDecay"
  /\ \E t \in DOMAIN dlast.pre :
       /\ t \in Buckets(dlast.pre, dlast.item)
       /\ Len(dlast.pre[t]) >= 2
       /\ t \in DOMAIN decayMap
       /\ Len(decayMap[t]) = Len(dlast.pre[t]) - 1

(***************************************************************************)
(* Properties of loadHouseInfo and of the save routines.                   *)
(***************************************************************************)
\* The decision table for one stored row under the transfer flag: whether
\* the item transfer is triggered, and the owner the house gets.
Decided(flag, row) ==
  CASE ~flag \/ row.new_owner < 0 -> [transfer |-> FALSE, owner |-> row.owner]
    [] flag /\ row.new_owner = 0 -> [transfer |-> TRUE, owner |-> 0]
    [] flag /\ row.new_owner > 0 -> [transfer |-> TRUE, owner |-> row.new_owner]

\* The effects the latest loadHouseInfo had on a house, in order.
EffectsOn(h) == SelectSeq(hlast.events, LAMBDA e : e.house = h)

\* C9: loadHouseInfo, for every stored row of a house of the registry: with
\* the transfer flag off, or on with new_owner < 0, the owner is set from
\* the stored owner and no item transfer is triggered; with the flag on and
\* new_owner = 0 the item transfer for the stored owner is triggered first
\* and then the owner is cleared; with the flag on and new_owner > 0 the item
\* transfer is triggered first and then the owner is set to new_owner.
C9_OwnerDecision ==
  (hlast.op = "loadHouseInfo" /\ hlast.result) =>
    \A i \in 1..Len(hlast.tbl) :
      hlast.tbl[i].id \in DOMAIN hlast.pre =>
        /\ hlast.post[hlast.tbl[i].id].owner = Decided(hlast.flag, hlast.tbl[i]).owner
        /\ EffectsOn(hlast.tbl[i].id) =
             (IF Decided(hlast.flag, hlast.tbl[i]).transfer
              THEN <<Ev("setTransferPlayerHouseItems", hlast.tbl[i].id, hlast.tbl[i].owner)>>
              ELSE <<>>)
             \o <<Ev("setOwner", hlast.tbl[i].id, Decided(hlast.flag, hlast.tbl[i]).owner)>>

\* A load with the flag on met the row of an owned house with new_owner = 0:
\* the transfer for the stored owner, then the owner cleared.
C9_Witness ==
  /\ hlast.op = "loadHouseInfo"
  /\ hlast.result
  /\ hlast.flag
  /\ \E i \in 1..Len(hlast.tbl) :
       /\ hlast.tbl[i].id \in DOMAIN hlast.pre
       /\ hlast.tbl[i].new_owner = 0
       /\ hlast.tbl[i].owner # 0
       /\ hlast.post[hlast.tbl[i].id].owner = 0
       /\ Len(EffectsOn(hlast.tbl[i].id)) = 2

\* A run of store operations stops at its first failure and reports it.
FailFast(ops, result) ==
  \A i \in 1..Len(ops) : ~ops[i].ok => (i = Len(ops) /\ ~result)

\* C10: in saveHouseItems and in saveHouseInfo the first store operation
\* that fails (a query, a row add, the batch execute, the UPDATE or INSERT
\* of a house's row) stops the routine at once: no later store operation is
\* issued and the routine returns false.
C10_FailFast ==
  /\ last.op = "saveHouseItems" => FailFast(last.ops, last.result)
  /\ hlast.op = "saveHouseInfo" => FailFast(hlast.ops, hlast.result)

(***************************************************************************)
(* Decode failures, checked over the boot of a server whose store holds a  *)
(* damaged row.                                                            *)
(***************************************************************************)
\* The suffix of the blob of row r that a call saw on entry.
StreamAt(r, c) ==
  SubSeq(tile_store[r].data, Len(tile_store[r].data) - c.inLen + 1, Len(tile_store[r].data))

\* The item a call reads the attributes into: the one found on the tile for
\* the matched branch, a new one otherwise.
AttrTarget(c) == IF c.branch = "matched" THEN c.pre[c.idx] ELSE CreateItem(c.id)

\* The attribute read of a call of row r fails.
AttrFails(r, c) ==
  /\ c.branch \in {"fresh", "matched", "dummy"}
  /\ ~unserializeAttr(AttrTarget(c), Skip(StreamAt(r, c), 2)).ok

\* C11: in every instantiation branch of loadItem, a failed attribute read
\* makes loadItem return false.
C11_AttrFailure ==
  last.op = "loadHouseItems" =>
    \A r \in 1..Len(last.rows) : \A k \in 1..Len(last.rows[r].calls) :
      AttrFails(r, last.rows[r].calls[k]) => ~last.rows[r].calls[k].ok

\* A call read bytes of the stream or changed its parent's list.
Decoded(c) == c.outLen < c.inLen \/ c.post # c.pre

\* C12: when decoding an item of a row fails, no further item of that row is
\* decoded; every row of the store is visited, and a row changes no tile
\* other than the one it addresses.
C12_RowIsolation ==
  last.op = "loadHouseItems" /\ last.result =>
    /\ Len(last.rows) = Len(tile_store)
    /\ \A r \in 1..Len(last.rows) :
         /\ \A k \in 1..Len(TopCalls(r)) : \A j \in 1..Len(TopCalls(r)) :
              ~TopCalls(r)[k].ok /\ j > k => ~Decoded(TopCalls(r)[j])
         /\ \A t \in DOMAIN last.rows[r].pre :
              t # last.rows[r].tile => last.rows[r].post[t] = last.rows[r].pre[t]

(***************************************************************************)
(* The rows of a snapshot.                                                 *)
(***************************************************************************)
\* The position bytes a blob of tile t starts with.
PosBytes(t) == W16(PosOf(t)[1]) \o W16(PosOf(t)[2]) \o W8(PosOf(t)[3])

\* The tile holds at least one item that is saved to houses.
Qualifies(ts, t) == \E j \in 1..Len(ts[t]) : isSavedToHouses(ts[t][j])

\* The rows of the store whose blob starts with the position of tile t.
RowsAt(store, t) ==
  {r \in 1..Len(store) : Len(store[r].data) >= 5 /\ SubSeq(store[r].data, 1, 5) = PosBytes(t)}

\* C13: after a successful saveHouseItems the store holds exactly one row
\* per house tile with a qualifying item, tagged with the house owning the
\* tile and holding that tile's blob, and no row for any other tile.
C13_OneRowPerTile ==
  last.op = "saveHouseItems" /\ last.result =>
    /\ \A h \in HouseIds : \A i \in 1..Len(HouseTiles(h)) :
         IF Qualifies(tiles, HouseTiles(h)[i])
         THEN /\ Cardinality(RowsAt(tile_store, HouseTiles(h)[i])) = 1
              /\ \A r \in RowsAt(tile_store, HouseTiles(h)[i]) :
                   /\ tile_store[r].house_id = h
                   /\ tile_store[r].data = saveTile(HouseTiles(h)[i], tiles[HouseTiles(h)[i]])
         ELSE RowsAt(tile_store, HouseTiles(h)[i]) = {}
    /\ \A r \in 1..Len(tile_store) : \E t \in TileIds : r \in RowsAt(tile_store, t)

\* A successful save of a map where one tile has a qualifying item and one
\* tile holds nothing but a wall or nothing at all: the store has one row.
C13_Witness ==
  /\ last.op = "saveHouseItems"
  /\ last.result
  /\ \E t \in TileIds : Qualifies(tiles, t)
  /\ \E t \in TileIds : ~Qualifies(tiles, t)
  /\ Len(tile_store) = 1

\* C14: saveHouseItems leaves the live map as it is, and a successful save
\* that directly follows a successful save leaves tile_store with the same
\* rows holding the same bytes.
C14_SaveIdempotent ==
  [][last'.op = "saveHouseItems" =>
       /\ tiles' = tiles
       /\ (last.op = "saveHouseItems" /\ last.result /\ last'.result) =>
            tile_store' = tile_store]_vars

\* A successful save over a store that an earlier save of the same map,
\* items dropped since the start included, had filled.
C14_Witness ==
  /\ last.op = "saveHouseItems"
  /\ last.result
  /\ moves > 0
  /\ last.pre # <<>>
  /\ last.pre = tile_store

(***************************************************************************)
(* Store failures while loading.                                           *)
(***************************************************************************)
\* C15: when a query that reads stored rows fails, the load routine reports
\* failure to its caller through a boolean result: loadHouseItems for the
\* query on tile_store, loadHouseInfo for the queries on houses and on
\* house_lists.
C15_LoadReports ==
  /\ (last.op = "loadHouseItems" /\ SomeFailed(last.ops)) => last.returned = "false"
  /\ (hlast.op = "loadHouseInfo" /\ SomeFailed(hlast.ops)) => ~hlast.result

(***************************************************************************)
(* The order of the decay sweep.                                           *)
(***************************************************************************)
\* The tick of the bucket an item is in, and its place in that bucket.
TickOf(m, item) == CHOOSE t \in Buckets(m, item) : TRUE
PlaceOf(m, item) == CHOOSE k \in 1..Len(m[TickOf(m, item)]) : m[TickOf(m, item)][k] = item

\* The item is in a bucket the sweep of the given clock finds due.
IsDue(m, item, clock) == \E t \in Buckets(m, item) : t <= clock

CallsOf(r) == last.rows[r].calls
AttrsOf(r, k) ==
  unserializeAttr(AttrTarget(CallsOf(r)[k]), Skip(StreamAt(r, CallsOf(r)[k]), 2))

\* The k-th call of row r went on to loadContainer: the item is a container
\* and, in the fresh and the matched branch, its attribute read succeeded.
CallsContainer(r, k) ==
  /\ CallsOf(r)[k].branch \in {"fresh", "matched", "dummy"}
  /\ getContainer(AttrTarget(CallsOf(r)[k]))
  /\ CallsOf(r)[k].branch = "dummy" \/ AttrsOf(r, k).ok

\* The calls loadContainer made for the k-th call of row r: the calls one
\* level down that follow it before the next call of its level or above.
KidsOf(r, k) ==
  {j \in (k + 1)..Len(CallsOf(r)) :
     /\ CallsOf(r)[j].depth = CallsOf(r)[k].depth + 1
     /\ \A i \in (k + 1)..j : CallsOf(r)[i].depth > CallsOf(r)[k].depth}

\* The bytes left when the children of the k-th call were read.
LeftAfterKids(r, k) ==
  IF KidsOf(r, k) = {} THEN Len(AttrsOf(r, k).s)
  ELSE CallsOf(r)[CHOOSE j \in KidsOf(r, k) : \A i \in KidsOf(r, k) : i <= j].outLen

\* The byte after the children exists and is 0.
Terminated(r, k) ==
  /\ LeftAfterKids(r, k) >= 1
  /\ tile_store[r].data[Len(tile_store[r].data) - LeftAfterKids(r, k) + 1] = 0

\* Exactly serializationCount children were decoded, each with success.
AllKids(r, k) ==
  /\ Cardinality(KidsOf(r, k)) = AttrsOf(r, k).item.scount
  /\ \A j \in KidsOf(r, k) : CallsOf(r)[j].ok

\* C17: a loadItem call that goes on to loadContainer returns true exactly
\* when serializationCount children were decoded with success and the byte
\* after them exists and is 0; a failed child, an exhausted stream or a
\* non-zero terminator makes loadContainer and the calling loadItem return
\* false.
C17_Container ==
  last.op = "loadHouseItems" =>
    \A r \in 1..Len(last.rows) : \A k \in 1..Len(CallsOf(r)) :
      CallsContainer(r, k) =>
        /\ CallsOf(r)[k].ok <=> (AllKids(r, k) /\ Terminated(r, k))
        /\ CallsOf(r)[k].ok =>
             CallsOf(r)[k].outLen = LeftAfterKids(r, k) - 1

\* A container whose children all decoded and whose terminator byte is
\* there but not 0: the call failed.
C17_Witness ==
  /\ last.op = "loadHouseItems"
  /\ \E r \in 1..Len(last.rows) : \E k \in 1..Len(CallsOf(r)) :
       /\ CallsContainer(r, k)
       /\ KidsOf(r, k) # {}
       /\ AllKids(r, k)
       /\ LeftAfterKids(r, k) >= 1
       /\ ~Terminated(r, k)
       /\ ~CallsOf(r)[k].ok

(***************************************************************************)
(* The stationary scan.                                                    *)
(***************************************************************************)
\* An existing item satisfies one of the match conditions for a decoded id.
Structural(existing, id) ==
  \/ existing.id = id
  \/ ItemType(id).transformOnUse # 0 /\ ItemType(id).transformOnUse = existing.id
  \/ ItemType(id).door /\ getDoor(existing)
  \/ ItemType(id).bed /\ getBed(existing)

\* C18: a stationary record is reconciled with the first item of the tile's
\* list, in list order, that satisfies a match condition, whether or not a
\* later item has the decoded id itself; with no such item the record takes
\* the dummy branch.
C18_FirstMatch ==
  last.op = "loadHouseItems" =>
    \A r \in 1..Len(last.rows) : \A k \in 1..Len(CallsOf(r)) :
      CallsOf(r)[k].branch \in {"matched", "dummy"} =>
        IF \E i \in 1..Len(CallsOf(r)[k].pre) : Structural(CallsOf(r)[k].pre[i], CallsOf(r)[k].id)
        THEN /\ CallsOf(r)[k].branch = "matched"
             /\ CallsOf(r)[k].idx \in 1..Len(CallsOf(r)[k].pre)
             /\ Structural(CallsOf(r)[k].pre[CallsOf(r)[k].idx], CallsOf(r)[k].id)
             /\ \A i \in 1..(CallsOf(r)[k].idx - 1) :
                  ~Structural(CallsOf(r)[k].pre[i], CallsOf(r)[k].id)
        ELSE CallsOf(r)[k].branch = "dummy"

\* A record matched with an item that has another id although an item
\* later in the list has the decoded id.
C18_Witness ==
  /\ last.op = "loadHouseItems"
  /\ \E r \in 1..Len(last.rows) : \E k \in 1..Len(CallsOf(r)) :
       /\ CallsOf(r)[k].branch = "matched"
       /\ CallsOf(r)[k].pre[CallsOf(r)[k].idx].id # CallsOf(r)[k].id
       /\ \E j \in (CallsOf(r)[k].idx + 1)..Len(CallsOf(r)[k].pre) :
            CallsOf(r)[k].pre[j].id = CallsOf(r)[k].id

(***************************************************************************)
(* The count field of a tile blob.                                         *)
(***************************************************************************)
\* C19: the item_count field saveTile writes equals the number of item
\* records that follow it in the blob, whatever the number of qualifying
\* items on the tile, 65536 and above included.
C19_CountField ==
  bulkBlob.written => bulkBlob.count = bulkBlob.items

(***************************************************************************)
(* What a failed decode leaves behind.                                     *)
(***************************************************************************)
\* The calls made, at any depth, on behalf of the k-th call of row r.
Subtree(r, k) ==
  {j \in (k + 1)..Len(CallsOf(r)) :
     \A i \in (k + 1)..j : CallsOf(r)[i].depth > CallsOf(r)[k].depth}

\* The parent's list is as it was on entry of the k-th call of row r.
ParentKept(r, k) == CallsOf(r)[k].post = CallsOf(r)[k].pre

\* No item made during the k-th call of row r was started to decay.
NoDecayStarted(r, k) ==
  /\ ~CallsOf(r)[k].decay
  /\ \A j \in Subtree(r, k) : ~CallsOf(r)[j].decay

\* C20: whenever loadItem returns false, the parent cylinder has the items
\* it had before the call, no existing tile item was changed, and decay was
\* started for no item made during the call.
C20_FailedDecode ==
  last.op = "loadHouseItems" =>
    \A r \in 1..Len(last.rows) : \A k \in 1..Len(CallsOf(r)) :
      ~CallsOf(r)[k].ok => (ParentKept(r, k) /\ NoDecayStarted(r, k))


====
